---- MODULE Spec2Model ----
(***************************************************************************)
(* A state-machine model of the pico-baremetal image: the reset sequencer  *)
(* (startup.c), the vector table and its weak-alias resolution             *)
(* (vectors.c), and the application (main.c): peripheral reset release,    *)
(* pin configuration, SysTick set-up and the SysTick interrupt handler.    *)
(*                                                                         *)
(* Memory is word-addressed: an address is a word index, so that dst++ on  *)
(* a uint32_t pointer is +1.  A 32-bit word is a pair <<hi, lo>> of 16-bit *)
(* halves (value hi * 2^16 + lo), which keeps the full width of uint32_t.  *)
(* A bit-mask register is the set of the bit positions that are 1.         *)
(***************************************************************************)
EXTENDS Integers, Sequences, FiniteSets, TLC

(* ------------------------------ bounds --------------------------------- *)
\* Number of words of working memory (RAM) in the model.
RamWords == 3
\* Largest word offset of the .data load image inside the flash window.
MaxFlashOff == 1

(* ------------------------- 32-bit words -------------------------------- *)
Half == 2 ^ 16

Zero32 == <<0, 0>>

Noise32 == <<Half - 1, Half - 1>>

\* x + 1 on a uint32_t (wraps from 2^32 - 1 to 0).
Inc32_nowrap(x) ==
    IF x[2] + 1 < Half THEN <<x[1], x[2] + 1>> ELSE <<x[1] + 1, 0>>

Inc32(x) ==
    IF x[2] + 1 < Half THEN <<x[1], x[2] + 1>>
    ELSE IF x[1] + 1 < Half THEN <<x[1] + 1, 0>> ELSE Zero32

\* x % n on a uint32_t, for 0 < n < 2^15.
Mod32(x, n) == (((x[1] % n) * (Half % n)) + (x[2] % n)) % n

(* --------------------------- state ------------------------------------- *)
VARIABLES
    pc,             \* position of the thread of control (Reset_Handler / main)
    src, dst,       \* Reset_Handler's two pointers
    ram,            \* working memory: word address -> word
    flash,          \* non-volatile memory window: word address -> word
    _data_start, _data_end, _data_flash, _bss_start, _bss_end,  \* linker symbols
    ram0,           \* history: the content of working memory at reset
    out0,           \* history: the output level (GPIO_OUT) at reset
    wlog,           \* history: Reset_Handler's memory writes, in order
    main_calls,     \* history: number of times main was entered
    tick_count_addr,    \* &tick_count: where the linker placed main.c's counter
    RESETS_RESET,       \* reset control: bit i set = block i held in reset
    RESETS_RESET_DONE,  \* reset status: bit i set = block i confirmed out of reset
    GPIO25_CTRL,        \* IO_BANK0 function select of GPIO 25
    GPIO_OE,            \* SIO output enable
    GPIO_OUT,           \* SIO output level
    SYST_CSR, SYST_RVR, SYST_CVR,   \* SysTick control, reload, current value
    mmio,           \* history: the register accesses of the code, in order
    fired,          \* history: number of SysTick exceptions taken
    toggle_at,      \* history: the firings (values of fired) that toggled the pin
    tick_rw,        \* history: <<loads, stores>> of tick_count made by main.c
    active_exc,     \* number of the exception whose handler is running (0: none)
    ret_pc,         \* the position the running handler preempted
    image,          \* the strong (non-weak) global definitions linked together
    vector_table,   \* the linked vector table: slot k is vector_table[k + 1]
    link_k          \* number of vector-table slots the linker has resolved

RamAddr == 0 .. (RamWords - 1)

FlashWords == RamWords + MaxFlashOff

FlashAddr == 0 .. (FlashWords - 1)

\* Power-on content of one RAM word: indeterminate.
RamVals == {Zero32, Noise32}

\* Flash images: one with pairwise distinct words, one of noise, one of zeros.
FlashImages ==
    { [a \in FlashAddr |-> <<1, a + 1>>],
      [a \in FlashAddr |-> Noise32],
      [a \in FlashAddr |-> Zero32] }

memvars == <<pc, src, dst, ram, flash, _data_start, _data_end, _data_flash,
             _bss_start, _bss_end, ram0, out0, wlog, main_calls>>

hwvars == <<RESETS_RESET, RESETS_RESET_DONE, GPIO25_CTRL, GPIO_OE, GPIO_OUT,
            SYST_CSR, SYST_RVR, SYST_CVR, mmio>>

isrvars == <<fired, toggle_at, tick_rw, active_exc, ret_pc>>

linkvars == <<image, vector_table, link_k>>

\* Everything Reset_Handler does not touch.
envvars == <<tick_count_addr, hwvars, isrvars, linkvars>>

(* ------------------ startup.c: Reset_Handler --------------------------- *)
\* State on entry to Reset_Handler: src = &_data_flash, dst = &_data_start.
\* The linker symbols are inputs; the flash window holds at least the words
\* the copy loop reads.
ResetEntry ==
    /\ _data_start \in 0 .. RamWords
    /\ _data_end \in 0 .. RamWords
    /\ _bss_start \in 0 .. RamWords
    /\ _bss_end \in 0 .. RamWords
    /\ _data_flash \in 0 .. MaxFlashOff
    /\ ram \in [RamAddr -> RamVals]
    /\ flash \in FlashImages
    /\ ram0 = ram
    /\ src = _data_flash
    /\ dst = _data_start
    /\ pc = "copy"
    /\ wlog = << >>
    /\ main_calls = 0

\* while (dst < &_data_end) { *dst++ = *src++; }   -- one iteration
CopyWord_nosrcinc ==
    /\ pc = "copy"
    /\ dst < _data_end
    /\ ram' = [ram EXCEPT ![dst] = flash[src]]
    /\ wlog' = Append(wlog, <<"copy", dst>>)
    /\ dst' = dst + 1
    /\ src' = src
    /\ UNCHANGED <<pc, flash, _data_start, _data_end, _data_flash,
                   _bss_start, _bss_end, ram0, out0, main_calls>>
    /\ UNCHANGED envvars

CopyWord_inclusive ==
    /\ pc = "copy"
    /\ dst <= _data_end
    /\ dst \in RamAddr
    /\ ram' = [ram EXCEPT ![dst] = flash[src]]
    /\ wlog' = Append(wlog, <<"copy", dst>>)
    /\ dst' = dst + 1
    /\ src' = src + 1
    /\ UNCHANGED <<pc, flash, _data_start, _data_end, _data_flash,
                   _bss_start, _bss_end, ram0, out0, main_calls>>
    /\ UNCHANGED envvars

CopyWord ==
    /\ pc = "copy"
    /\ dst < _data_end
    /\ ram' = [ram EXCEPT ![dst] = flash[src]]
    /\ wlog' = Append(wlog, <<"copy", dst>>)
    /\ dst' = dst + 1
    /\ src' = src + 1
    /\ UNCHANGED <<pc, flash, _data_start, _data_end, _data_flash,
                   _bss_start, _bss_end, ram0, out0, main_calls>>
    /\ UNCHANGED envvars

\* the copy loop's exit, then dst = &_bss_start
CopyDone ==
    /\ pc = "copy"
    /\ ~(dst < _data_end)
    /\ dst' = _bss_start
    /\ pc' = "zero"
    /\ UNCHANGED <<src, ram, flash, _data_start, _data_end, _data_flash,
                   _bss_start, _bss_end, ram0, out0, wlog, main_calls>>
    /\ UNCHANGED envvars

\* while (dst < &_bss_end) { *dst++ = 0; }   -- one iteration
ZeroWord_skipfirst ==
    /\ pc = "zero"
    /\ dst < _bss_end
    /\ ram' = IF dst = _bss_start THEN ram ELSE [ram EXCEPT ![dst] = Zero32]
    /\ wlog' = IF dst = _bss_start THEN wlog ELSE Append(wlog, <<"zero", dst>>)
    /\ dst' = dst + 1
    /\ UNCHANGED <<pc, src, flash, _data_start, _data_end, _data_flash,
                   _bss_start, _bss_end, ram0, out0, main_calls>>
    /\ UNCHANGED envvars

ZeroWord ==
    /\ pc = "zero"
    /\ dst < _bss_end
    /\ ram' = [ram EXCEPT ![dst] = Zero32]
    /\ wlog' = Append(wlog, <<"zero", dst>>)
    /\ dst' = dst + 1
    /\ UNCHANGED <<pc, src, flash, _data_start, _data_end, _data_flash,
                   _bss_start, _bss_end, ram0, out0, main_calls>>
    /\ UNCHANGED envvars

\* the zero loop's exit, then the call main()
CallMain_early ==
    /\ pc \in {"copy", "zero"}
    /\ pc' = "main"
    /\ main_calls' = main_calls + 1
    /\ UNCHANGED <<src, dst, ram, flash, _data_start, _data_end, _data_flash,
                   _bss_start, _bss_end, ram0, out0, wlog>>
    /\ UNCHANGED envvars

CallMain ==
    /\ pc = "zero"
    /\ ~(dst < _bss_end)
    /\ pc' = "main"
    /\ main_calls' = main_calls + 1
    /\ UNCHANGED <<src, dst, ram, flash, _data_start, _data_end, _data_flash,
                   _bss_start, _bss_end, ram0, out0, wlog>>
    /\ UNCHANGED envvars

\* main() returns to Reset_Handler (main is extern to startup.c; its return
\* lands on the statement after the call).
MainReturns ==
    /\ pc = "main"
    /\ pc' = "trap"
    /\ UNCHANGED <<src, dst, ram, flash, _data_start, _data_end, _data_flash,
                   _bss_start, _bss_end, ram0, out0, wlog, main_calls>>
    /\ UNCHANGED envvars

\* while(1);   -- one iteration of the trap loop
TrapLoop_fallthrough ==
    /\ pc = "trap"
    /\ pc' = "past_end"
    /\ UNCHANGED <<src, dst, ram, flash, _data_start, _data_end, _data_flash,
                   _bss_start, _bss_end, ram0, out0, wlog, main_calls>>
    /\ UNCHANGED envvars

TrapLoop ==
    /\ pc = "trap"
    /\ pc' = "trap"
    /\ UNCHANGED <<src, dst, ram, flash, _data_start, _data_end, _data_flash,
                   _bss_start, _bss_end, ram0, out0, wlog, main_calls>>
    /\ UNCHANGED envvars

Reset_Handler ==
    \/ CopyWord
    \/ CopyDone
    \/ ZeroWord
    \/ CallMain
    \/ TrapLoop

(* ------------- vectors.c: handlers, weak aliases, the table ------------ *)
\* A strong global definition: a symbol name and the unit that defines it.
Def(n, u) == [name |-> n, unit |-> u]

\* void Default_Handler(void) { while(1); }
Default_Handler_def == Def("Default_Handler", "vectors.c")

\* The names declared __attribute__((weak, alias("Default_Handler"))).
WeakAliases ==
    { "NMI_Handler", "HardFault_Handler", "SVC_Handler", "PendSV_Handler",
      "SysTick_Handler",
      "TIMER_IRQ0_Handler", "TIMER_IRQ1_Handler", "TIMER_IRQ2_Handler",
      "TIMER_IRQ3_Handler", "PWM_IRQ_Handler", "USBCTRL_IRQ_Handler",
      "PIO0_IRQ0_Handler", "PIO0_IRQ1_Handler", "PIO1_IRQ0_Handler",
      "PIO1_IRQ1_Handler", "DMA_IRQ0_Handler", "DMA_IRQ1_Handler",
      "IO_IRQ_Handler", "SPI0_IRQ_Handler", "SPI1_IRQ_Handler",
      "UART0_IRQ_Handler", "UART1_IRQ_Handler", "ADC_IRQ_Handler",
      "I2C0_IRQ_Handler", "I2C1_IRQ_Handler", "RTC_IRQ_Handler" }

\* The initialiser of vector_table[]: a symbol name, or "0" for a literal 0.
vector_table_init ==
    << "_stack_top",
       "Reset_Handler", "NMI_Handler", "HardFault_Handler",
       "0", "0", "0", "0", "0", "0", "0",
       "SVC_Handler", "0", "0", "PendSV_Handler", "SysTick_Handler",
       "TIMER_IRQ0_Handler", "TIMER_IRQ1_Handler", "TIMER_IRQ2_Handler",
       "TIMER_IRQ3_Handler", "PWM_IRQ_Handler", "USBCTRL_IRQ_Handler",
       "0",
       "PIO0_IRQ0_Handler", "PIO0_IRQ1_Handler", "PIO1_IRQ0_Handler",
       "PIO1_IRQ1_Handler", "DMA_IRQ0_Handler", "DMA_IRQ1_Handler",
       "IO_IRQ_Handler",
       "0", "0", "0", "0",
       "SPI0_IRQ_Handler", "SPI1_IRQ_Handler", "UART0_IRQ_Handler",
       "UART1_IRQ_Handler", "ADC_IRQ_Handler", "I2C0_IRQ_Handler",
       "I2C1_IRQ_Handler", "RTC_IRQ_Handler" >>

NumSlots == Len(vector_table_init)

\* The literal 0 of a reserved slot.
ZeroSlot == Def("0", "0")

\* What the linker binds a symbol reference to: the strong definition of that
\* name when the image has one, otherwise the weak alias's target.
Resolve_weakwins(n, img) ==
    IF n = "0" THEN ZeroSlot
    ELSE IF n \in WeakAliases THEN Default_Handler_def
    ELSE IF \E d \in img : d.name = n THEN CHOOSE d \in img : d.name = n
    ELSE Def(n, "undefined")

Resolve(n, img) ==
    IF n = "0" THEN ZeroSlot
    ELSE IF \E d \in img : d.name = n THEN CHOOSE d \in img : d.name = n
    ELSE IF n \in WeakAliases THEN Default_Handler_def
    ELSE Def(n, "undefined")

\* The whole table, linked against an image.
LinkedTable(img) == [i \in 1 .. NumSlots |-> Resolve(vector_table_init[i], img)]

\* The strong global definitions of this repository's image.
SysTick_Handler_def == Def("SysTick_Handler", "main.c")

ThisImage ==
    { Default_Handler_def,
      Def("Reset_Handler", "startup.c"),
      Def("main", "main.c"),
      SysTick_Handler_def,
      Def("_stack_top", "linker") }

\* The linker resolves the next slot of the table.
LinkSlot ==
    /\ link_k < NumSlots
    /\ vector_table' = Append(vector_table,
                              Resolve(vector_table_init[link_k + 1], image))
    /\ link_k' = link_k + 1
    /\ UNCHANGED <<image, memvars, tick_count_addr, hwvars, isrvars>>

(* ------------------------------ main.c --------------------------------- *)
\* Most RESETS_RESET_DONE reads that find the blocks not ready (model bound).
MaxPolls == 2
\* Most SysTick exceptions taken (model bound).
MaxFirings == 1001

\* (1u << n)
Bit(n) == {n}

RESET_IO_BANK0 == Bit(5)

RESET_PADS_BANK0 == Bit(8)

FUNCSEL_SIO == 5

LED_PIN == 25

LED_MASK == Bit(LED_PIN)

\* SYST_CSR bits: CLKSOURCE | TICKINT | ENABLE
CSR_ENABLE == Bit(0)

CSR_TICKINT == Bit(1)

CSR_CLKSOURCE == Bit(2)

ticks_per_ms == 6000

\* The literal of the modulus test in SysTick_Handler.
TOGGLE_TICKS == 500

\* The register alias views: a write of mask to the alias changes the
\* underlying register as follows (+0x1000 XOR, +0x2000 SET, +0x3000 CLR).
AliasXor_asset(reg, mask) == reg \cup mask

AliasXor(reg, mask) == (reg \ mask) \cup (mask \ reg)

AliasSet(reg, mask) == reg \cup mask

AliasClr(reg, mask) == reg \ mask

\* Blocks of the reset controller other than the two this image releases:
\* one still held in reset, and one released before the image starts (the
\* QSPI pins the image is fetched through), whose status bit is already set.
OtherBlocks == Bit(0)

ReleasedAtBoot == Bit(6)

\* The values the status register can show: the block released at boot is
\* confirmed, the held one is not, the two of this image in any combination.
StatusValues ==
    { ReleasedAtBoot \cup s : s \in SUBSET (RESET_IO_BANK0 \cup RESET_PADS_BANK0) }

\* static volatile uint32_t tick_count
tick_count == ram[tick_count_addr]

Write(reg, val) == <<"w", reg, val>>

Read(reg, val) == <<"r", reg, val>>

StatusReads == SelectSeq(mmio, LAMBDA e : e[1] = "r" /\ e[2] = "RESETS_RESET_DONE")

\* The registers at reset: the peripheral blocks held in reset and unconfirmed,
\* GPIO 25 without a function (31 = NULL), outputs disabled and low, SysTick
\* stopped.
HwReset ==
    /\ RESETS_RESET = OtherBlocks \cup RESET_IO_BANK0 \cup RESET_PADS_BANK0
    /\ RESETS_RESET_DONE = ReleasedAtBoot
    /\ GPIO25_CTRL = 31
    /\ GPIO_OE = {}
    /\ GPIO_OUT = {}
    /\ out0 = GPIO_OUT
    /\ SYST_CSR = {}
    /\ SYST_RVR = 0
    /\ SYST_CVR = 0
    /\ mmio = << >>

\* The reset controller changes its status register, at any time and to any
\* value, until resets_init has returned (the code never reads it afterwards).
HwStatus ==
    /\ pc \in {"copy", "zero", "main", "resets_poll"}
    /\ \E v \in StatusValues :
          /\ v # RESETS_RESET_DONE
          /\ RESETS_RESET_DONE' = v
    /\ UNCHANGED <<memvars, tick_count_addr, RESETS_RESET, GPIO25_CTRL, GPIO_OE,
                   GPIO_OUT, SYST_CSR, SYST_RVR, SYST_CVR, mmio, isrvars, linkvars>>

\* resets_init: RESETS_RESET_CLR = RESET_IO_BANK0 | RESET_PADS_BANK0;
resets_init_clr ==
    /\ pc = "main"
    /\ RESETS_RESET' = AliasClr(RESETS_RESET, RESET_IO_BANK0 \cup RESET_PADS_BANK0)
    /\ mmio' = Append(mmio, Write("RESETS_RESET_CLR",
                                  RESET_IO_BANK0 \cup RESET_PADS_BANK0))
    /\ pc' = "resets_poll"
    /\ UNCHANGED <<src, dst, ram, flash, _data_start, _data_end, _data_flash,
                   _bss_start, _bss_end, ram0, out0, wlog, main_calls>>
    /\ UNCHANGED <<tick_count_addr, RESETS_RESET_DONE, GPIO25_CTRL, GPIO_OE,
                   GPIO_OUT, SYST_CSR, SYST_RVR, SYST_CVR, isrvars, linkvars>>

\* The loop test of resets_init on a status value just read.
PollReady_any(status) ==
    (status \cap (RESET_IO_BANK0 \cup RESET_PADS_BANK0)) # {}

PollReady_widemask(status) ==
    (status \cap (OtherBlocks \cup RESET_IO_BANK0 \cup RESET_PADS_BANK0))
        = (OtherBlocks \cup RESET_IO_BANK0 \cup RESET_PADS_BANK0)

PollReady(status) ==
    (status \cap (RESET_IO_BANK0 \cup RESET_PADS_BANK0))
        = (RESET_IO_BANK0 \cup RESET_PADS_BANK0)

\* resets_init: one evaluation of
\* while ((RESETS_RESET_DONE & mask) != mask);  then the return to main.
resets_init_poll ==
    /\ pc = "resets_poll"
    /\ PollReady(RESETS_RESET_DONE) \/ Len(StatusReads) < MaxPolls
    /\ mmio' = Append(mmio, Read("RESETS_RESET_DONE", RESETS_RESET_DONE))
    /\ pc' = IF PollReady(RESETS_RESET_DONE) THEN "gpio_init" ELSE "resets_poll"
    /\ UNCHANGED <<src, dst, ram, flash, _data_start, _data_end, _data_flash,
                   _bss_start, _bss_end, ram0, out0, wlog, main_calls>>
    /\ UNCHANGED <<tick_count_addr, RESETS_RESET, RESETS_RESET_DONE, GPIO25_CTRL,
                   GPIO_OE, GPIO_OUT, SYST_CSR, SYST_RVR, SYST_CVR, isrvars,
                   linkvars>>

\* gpio_init: GPIO25_CTRL = FUNCSEL_SIO;
gpio_init_ctrl_first ==
    /\ pc \in {"main", "gpio_init"}
    /\ GPIO25_CTRL' = FUNCSEL_SIO
    /\ mmio' = Append(mmio, Write("GPIO25_CTRL", FUNCSEL_SIO))
    /\ pc' = "gpio_oe"
    /\ UNCHANGED <<src, dst, ram, flash, _data_start, _data_end, _data_flash,
                   _bss_start, _bss_end, ram0, out0, wlog, main_calls>>
    /\ UNCHANGED <<tick_count_addr, RESETS_RESET, RESETS_RESET_DONE, GPIO_OE,
                   GPIO_OUT, SYST_CSR, SYST_RVR, SYST_CVR, isrvars, linkvars>>

gpio_init_ctrl ==
    /\ pc = "gpio_init"
    /\ GPIO25_CTRL' = FUNCSEL_SIO
    /\ mmio' = Append(mmio, Write("GPIO25_CTRL", FUNCSEL_SIO))
    /\ pc' = "gpio_oe"
    /\ UNCHANGED <<src, dst, ram, flash, _data_start, _data_end, _data_flash,
                   _bss_start, _bss_end, ram0, out0, wlog, main_calls>>
    /\ UNCHANGED <<tick_count_addr, RESETS_RESET, RESETS_RESET_DONE, GPIO_OE,
                   GPIO_OUT, SYST_CSR, SYST_RVR, SYST_CVR, isrvars, linkvars>>

\* gpio_init: GPIO_OE_SET = LED_MASK;
gpio_init_oe_store ==
    /\ pc = "gpio_oe"
    /\ GPIO_OE' = LED_MASK
    /\ mmio' = Append(mmio, Write("GPIO_OE_SET", LED_MASK))
    /\ pc' = "gpio_xor"
    /\ UNCHANGED <<src, dst, ram, flash, _data_start, _data_end, _data_flash,
                   _bss_start, _bss_end, ram0, out0, wlog, main_calls>>
    /\ UNCHANGED <<tick_count_addr, RESETS_RESET, RESETS_RESET_DONE, GPIO25_CTRL,
                   GPIO_OUT, SYST_CSR, SYST_RVR, SYST_CVR, isrvars, linkvars>>

gpio_init_oe ==
    /\ pc = "gpio_oe"
    /\ GPIO_OE' = AliasSet(GPIO_OE, LED_MASK)
    /\ mmio' = Append(mmio, Write("GPIO_OE_SET", LED_MASK))
    /\ pc' = "gpio_xor"
    /\ UNCHANGED <<src, dst, ram, flash, _data_start, _data_end, _data_flash,
                   _bss_start, _bss_end, ram0, out0, wlog, main_calls>>
    /\ UNCHANGED <<tick_count_addr, RESETS_RESET, RESETS_RESET_DONE, GPIO25_CTRL,
                   GPIO_OUT, SYST_CSR, SYST_RVR, SYST_CVR, isrvars, linkvars>>

\* gpio_init: GPIO_OUT_XOR = LED_MASK;  then the return to main.
gpio_init_xor_skipped ==
    /\ pc = "gpio_xor"
    /\ pc' = "systick_init"
    /\ UNCHANGED <<src, dst, ram, flash, _data_start, _data_end, _data_flash,
                   _bss_start, _bss_end, ram0, out0, wlog, main_calls>>
    /\ UNCHANGED envvars

gpio_init_xor_rmw ==
    /\ pc = "gpio_xor"
    /\ GPIO_OUT' = AliasXor(GPIO_OUT, LED_MASK)
    /\ mmio' = mmio \o << Read("GPIO_OUT", GPIO_OUT),
                          Write("GPIO_OUT", AliasXor(GPIO_OUT, LED_MASK)) >>
    /\ pc' = "systick_init"
    /\ UNCHANGED <<src, dst, ram, flash, _data_start, _data_end, _data_flash,
                   _bss_start, _bss_end, ram0, out0, wlog, main_calls>>
    /\ UNCHANGED <<tick_count_addr, RESETS_RESET, RESETS_RESET_DONE, GPIO25_CTRL,
                   GPIO_OE, SYST_CSR, SYST_RVR, SYST_CVR, isrvars, linkvars>>

gpio_init_xor ==
    /\ pc = "gpio_xor"
    /\ GPIO_OUT' = AliasXor(GPIO_OUT, LED_MASK)
    /\ mmio' = Append(mmio, Write("GPIO_OUT_XOR", LED_MASK))
    /\ pc' = "systick_init"
    /\ UNCHANGED <<src, dst, ram, flash, _data_start, _data_end, _data_flash,
                   _bss_start, _bss_end, ram0, out0, wlog, main_calls>>
    /\ UNCHANGED <<tick_count_addr, RESETS_RESET, RESETS_RESET_DONE, GPIO25_CTRL,
                   GPIO_OE, SYST_CSR, SYST_RVR, SYST_CVR, isrvars, linkvars>>

\* systick_init: SYST_RVR = ticks_per_ms - 1;
systick_init_rvr ==
    /\ pc = "systick_init"
    /\ SYST_RVR' = ticks_per_ms - 1
    /\ mmio' = Append(mmio, Write("SYST_RVR", ticks_per_ms - 1))
    /\ pc' = "systick_cvr"
    /\ UNCHANGED <<src, dst, ram, flash, _data_start, _data_end, _data_flash,
                   _bss_start, _bss_end, ram0, out0, wlog, main_calls>>
    /\ UNCHANGED <<tick_count_addr, RESETS_RESET, RESETS_RESET_DONE, GPIO25_CTRL,
                   GPIO_OE, GPIO_OUT, SYST_CSR, SYST_CVR, isrvars, linkvars>>

\* systick_init: SYST_CVR = 0;   (any write clears the current value)
systick_init_cvr ==
    /\ pc = "systick_cvr"
    /\ SYST_CVR' = 0
    /\ mmio' = Append(mmio, Write("SYST_CVR", 0))
    /\ pc' = "systick_csr"
    /\ UNCHANGED <<src, dst, ram, flash, _data_start, _data_end, _data_flash,
                   _bss_start, _bss_end, ram0, out0, wlog, main_calls>>
    /\ UNCHANGED <<tick_count_addr, RESETS_RESET, RESETS_RESET_DONE, GPIO25_CTRL,
                   GPIO_OE, GPIO_OUT, SYST_CSR, SYST_RVR, isrvars, linkvars>>

\* systick_init: SYST_CSR = CLKSOURCE | TICKINT | ENABLE;  then the return
\* to main, which enters while (1) { }.
systick_init_csr_first ==
    /\ pc = "systick_init"
    /\ SYST_CSR' = CSR_CLKSOURCE \cup CSR_TICKINT \cup CSR_ENABLE
    /\ mmio' = Append(mmio, Write("SYST_CSR",
                                  CSR_CLKSOURCE \cup CSR_TICKINT \cup CSR_ENABLE))
    /\ pc' = "idle"
    /\ UNCHANGED <<src, dst, ram, flash, _data_start, _data_end, _data_flash,
                   _bss_start, _bss_end, ram0, out0, wlog, main_calls>>
    /\ UNCHANGED <<tick_count_addr, RESETS_RESET, RESETS_RESET_DONE, GPIO25_CTRL,
                   GPIO_OE, GPIO_OUT, SYST_RVR, SYST_CVR, isrvars, linkvars>>

systick_init_csr ==
    /\ pc = "systick_csr"
    /\ SYST_CSR' = CSR_CLKSOURCE \cup CSR_TICKINT \cup CSR_ENABLE
    /\ mmio' = Append(mmio, Write("SYST_CSR",
                                  CSR_CLKSOURCE \cup CSR_TICKINT \cup CSR_ENABLE))
    /\ pc' = "idle"
    /\ UNCHANGED <<src, dst, ram, flash, _data_start, _data_end, _data_flash,
                   _bss_start, _bss_end, ram0, out0, wlog, main_calls>>
    /\ UNCHANGED <<tick_count_addr, RESETS_RESET, RESETS_RESET_DONE, GPIO25_CTRL,
                   GPIO_OE, GPIO_OUT, SYST_RVR, SYST_CVR, isrvars, linkvars>>

\* main: one iteration of while (1) { }
main_idle_clears ==
    /\ pc = "idle"
    /\ pc' = "idle"
    /\ ram' = [ram EXCEPT ![tick_count_addr] = Zero32]
    /\ tick_rw' = <<tick_rw[1], tick_rw[2] + 1>>
    /\ UNCHANGED <<src, dst, flash, _data_start, _data_end, _data_flash,
                   _bss_start, _bss_end, ram0, out0, wlog, main_calls>>
    /\ UNCHANGED <<tick_count_addr, hwvars, fired, toggle_at, active_exc,
                   ret_pc, linkvars>>

main_idle ==
    /\ pc = "idle"
    /\ pc' = "idle"
    /\ UNCHANGED <<src, dst, ram, flash, _data_start, _data_end, _data_flash,
                   _bss_start, _bss_end, ram0, out0, wlog, main_calls>>
    /\ UNCHANGED envvars

\* The SysTick exception is taken: the timer is enabled with its interrupt,
\* and the core branches to the handler slot 15 of the vector table names.
\* The image leaves every priority at its reset value, so SysTick does not
\* preempt a handler that is already running.
SysTickTaken_unmasked ==
    /\ active_exc = 0
    /\ fired < MaxFirings

SysTickTaken ==
    /\ active_exc = 0
    /\ CSR_ENABLE \subseteq SYST_CSR
    /\ CSR_TICKINT \subseteq SYST_CSR
    /\ fired < MaxFirings

\* void SysTick_Handler(void), run to completion.
SysTick_Handler_testfirst ==
    /\ SysTickTaken
    /\ vector_table[15 + 1] = SysTick_Handler_def
    /\ fired' = fired + 1
    /\ ram' = [ram EXCEPT ![tick_count_addr] = Inc32(tick_count)]
    /\ tick_rw' = <<tick_rw[1] + 2, tick_rw[2] + 1>>
    /\ IF Mod32(tick_count, TOGGLE_TICKS) = 0
       THEN /\ GPIO_OUT' = AliasXor(GPIO_OUT, LED_MASK)
            /\ mmio' = Append(mmio, Write("GPIO_OUT_XOR", LED_MASK))
            /\ toggle_at' = Append(toggle_at, fired + 1)
       ELSE UNCHANGED <<GPIO_OUT, mmio, toggle_at>>
    /\ UNCHANGED <<pc, src, dst, flash, _data_start, _data_end, _data_flash,
                   _bss_start, _bss_end, ram0, out0, wlog, main_calls>>
    /\ UNCHANGED <<tick_count_addr, RESETS_RESET, RESETS_RESET_DONE, GPIO25_CTRL,
                   GPIO_OE, SYST_CSR, SYST_RVR, SYST_CVR, linkvars,
                   active_exc, ret_pc>>

SysTick_Handler ==
    /\ SysTickTaken
    /\ vector_table[15 + 1] = SysTick_Handler_def
    /\ fired' = fired + 1
    /\ ram' = [ram EXCEPT ![tick_count_addr] = Inc32(tick_count)]
    /\ tick_rw' = <<tick_rw[1] + 2, tick_rw[2] + 1>>
    /\ IF Mod32(Inc32(tick_count), TOGGLE_TICKS) = 0
       THEN /\ GPIO_OUT' = AliasXor(GPIO_OUT, LED_MASK)
            /\ mmio' = Append(mmio, Write("GPIO_OUT_XOR", LED_MASK))
            /\ toggle_at' = Append(toggle_at, fired + 1)
       ELSE UNCHANGED <<GPIO_OUT, mmio, toggle_at>>
    /\ UNCHANGED <<pc, src, dst, flash, _data_start, _data_end, _data_flash,
                   _bss_start, _bss_end, ram0, out0, wlog, main_calls>>
    /\ UNCHANGED <<tick_count_addr, RESETS_RESET, RESETS_RESET_DONE, GPIO25_CTRL,
                   GPIO_OE, SYST_CSR, SYST_RVR, SYST_CVR, linkvars,
                   active_exc, ret_pc>>

\* Exceptions without an override in this image, one of each kind: NMI (2),
\* HardFault (3) and an external interrupt (36 = IRQ20, UART0).
UnboundNumbers == {2, 3, 36}

\* An exception is taken while no handler runs, and its slot of the vector
\* table names Default_Handler: the core stacks the return position and
\* branches there.
UnhandledException ==
    /\ active_exc = 0
    /\ \E k \in UnboundNumbers :
          /\ vector_table[k + 1] = Default_Handler_def
          /\ active_exc' = k
    /\ ret_pc' = pc
    /\ pc' = "Default_Handler"
    /\ UNCHANGED <<src, dst, ram, flash, _data_start, _data_end, _data_flash,
                   _bss_start, _bss_end, ram0, out0, wlog, main_calls>>
    /\ UNCHANGED <<tick_count_addr, hwvars, fired, toggle_at, tick_rw, linkvars>>

\* void Default_Handler(void) { while(1); }   -- one iteration
Default_Handler_returns ==
    /\ pc = "Default_Handler"
    /\ pc' = ret_pc
    /\ active_exc' = 0
    /\ ret_pc' = "none"
    /\ UNCHANGED <<src, dst, ram, flash, _data_start, _data_end, _data_flash,
                   _bss_start, _bss_end, ram0, out0, wlog, main_calls>>
    /\ UNCHANGED <<tick_count_addr, hwvars, fired, toggle_at, tick_rw, linkvars>>

Default_Handler ==
    /\ pc = "Default_Handler"
    /\ pc' = "Default_Handler"
    /\ UNCHANGED <<src, dst, ram, flash, _data_start, _data_end, _data_flash,
                   _bss_start, _bss_end, ram0, out0, wlog, main_calls>>
    /\ UNCHANGED envvars

main ==
    \/ resets_init_clr
    \/ resets_init_poll
    \/ gpio_init_ctrl
    \/ gpio_init_oe
    \/ gpio_init_xor
    \/ systick_init_rvr
    \/ systick_init_cvr
    \/ systick_init_csr
    \/ main_idle

(* --------------------------- specifications ---------------------------- *)
vars == <<memvars, envvars>>

\* The vector table of this repository's image, fully linked.
LinkedImage ==
    /\ image = ThisImage
    /\ vector_table = LinkedTable(ThisImage)
    /\ link_k = NumSlots

NoFirings ==
    /\ fired = 0
    /\ tick_rw = <<0, 0>>
    /\ toggle_at = << >>
    /\ active_exc = 0
    /\ ret_pc = "none"

\* Reset_Handler alone, over every layout, RAM content and flash image of
\* the bounded sets, with main as an external routine that may return.
InitReset ==
    /\ ResetEntry
    /\ tick_count_addr = 0
    /\ HwReset
    /\ NoFirings
    /\ LinkedImage

NextReset == Reset_Handler \/ MainReturns

SpecReset == InitReset /\ [][NextReset]_vars

\* The core keeps executing: a step of Reset_Handler that can be taken is
\* taken.
SpecResetFair == SpecReset /\ WF_vars(Reset_Handler)

\* The layouts the image is linked with: .data at the bottom of RAM, .bss
\* after it up to the end, tick_count (main.c's only static) the first word
\* of .bss; the RAM powers on all zeros or all noise.
ImageLayout ==
    /\ _data_start = 0
    /\ _data_flash = 0
    /\ _bss_start = _data_end
    /\ _bss_start < RamWords
    /\ _bss_end = RamWords
    /\ ram \in {[a \in RamAddr |-> Zero32], [a \in RamAddr |-> Noise32]}
    /\ flash = [a \in FlashAddr |-> <<1, a + 1>>]

\* The whole image from reset: Reset_Handler, main, the reset controller
\* and the SysTick exception.
Init ==
    /\ ResetEntry
    /\ ImageLayout
    /\ tick_count_addr = _bss_start
    /\ HwReset
    /\ NoFirings
    /\ LinkedImage

Next ==
    \/ CopyWord
    \/ CopyDone
    \/ ZeroWord
    \/ CallMain
    \/ main
    \/ HwStatus
    \/ SysTick_Handler

Spec == Init /\ [][Next]_vars

\* The whole image, with exceptions that have no override firing at any
\* point of Reset_Handler or main.
NextExc == Next \/ UnhandledException \/ Default_Handler

SpecExc == Init /\ [][NextExc]_vars

\* How far before the wrap of the 32-bit counter a run may start (model bound).
WrapLead == 297

\* Values of tick_count at the start of an observation: 0, as after reset,
\* and 2^32 - WrapLead, which the handler's +1 steps reach from 0.
TickStarts == {Zero32, <<Half - 1, Half - WrapLead>>}

\* The image in its idle loop with the timer running: the state main leaves
\* behind, for each starting value of the counter.
InitTick ==
    /\ pc = "idle"
    /\ _data_start = 0 /\ _data_end = 0 /\ _data_flash = 0
    /\ _bss_start = 0 /\ _bss_end = RamWords
    /\ src = 0 /\ dst = RamWords
    /\ tick_count_addr = 0
    /\ \E t \in TickStarts :
          ram = [a \in RamAddr |-> IF a = tick_count_addr THEN t ELSE Zero32]
    /\ flash = [a \in FlashAddr |-> Zero32]
    /\ ram0 = ram
    /\ wlog = << >>
    /\ main_calls = 1
    /\ RESETS_RESET = OtherBlocks
    /\ RESETS_RESET_DONE = ReleasedAtBoot \cup RESET_IO_BANK0 \cup RESET_PADS_BANK0
    /\ GPIO25_CTRL = FUNCSEL_SIO
    /\ GPIO_OE = LED_MASK
    /\ GPIO_OUT \in {{}, LED_MASK}
    /\ out0 = GPIO_OUT
    /\ SYST_CSR = CSR_CLKSOURCE \cup CSR_TICKINT \cup CSR_ENABLE
    /\ SYST_RVR = ticks_per_ms - 1
    /\ SYST_CVR = 0
    /\ mmio = << >>
    /\ NoFirings
    /\ LinkedImage

NextTick == SysTick_Handler \/ main_idle

\* Bits of the output-enable and output-level registers a run may find set
\* when main is entered: the LED's and one other pin's.
FrameBits == {24, LED_PIN}

\* main entered with any content of the reset-control, output-enable and
\* output-level registers over the bits the model follows.
InitFrame ==
    /\ pc = "main"
    /\ _data_start = 0 /\ _data_end = 0 /\ _data_flash = 0
    /\ _bss_start = 0 /\ _bss_end = RamWords
    /\ src = 0 /\ dst = RamWords
    /\ tick_count_addr = 0
    /\ ram = [a \in RamAddr |-> Zero32]
    /\ flash = [a \in FlashAddr |-> Zero32]
    /\ ram0 = ram
    /\ wlog = << >>
    /\ main_calls = 1
    /\ RESETS_RESET \in SUBSET (OtherBlocks \cup RESET_IO_BANK0 \cup RESET_PADS_BANK0)
    /\ RESETS_RESET_DONE = ReleasedAtBoot
    /\ GPIO25_CTRL = 31
    /\ GPIO_OE \in SUBSET FrameBits
    /\ GPIO_OUT \in SUBSET FrameBits
    /\ out0 = GPIO_OUT
    /\ SYST_CSR = {}
    /\ SYST_RVR = 0
    /\ SYST_CVR = 0
    /\ mmio = << >>
    /\ NoFirings
    /\ LinkedImage

NextFrame == main \/ HwStatus \/ SysTick_Handler

SpecFrame == InitFrame /\ [][NextFrame]_vars

\* The image from reset, and from its idle loop with the counter close to
\* the wrap, under every step of the image.
InitLife == Init \/ InitTick

SpecLife == InitLife /\ [][Next]_vars

\* The core keeps executing the instruction it is at, and the timer, once
\* enabled with its interrupt, keeps raising the SysTick exception. Nothing
\* is asked of the reset controller's status. Runs start at reset or in the
\* idle loop with the counter close to its wrap.
SpecLive ==
    /\ SpecLife
    /\ WF_vars(CopyWord \/ CopyDone \/ ZeroWord \/ CallMain)
    /\ WF_vars(main)
    /\ WF_vars(SysTick_Handler)

SpecTick == InitTick /\ [][NextTick]_vars

\* Most writes to GPIO_OUT_XOR in a run of the toggle primitive (model bound).
MaxXorWrites == 3

\* Bit positions of the output register the toggle primitive is tried on.
XorBits == {0, 24, LED_PIN}

\* A write of any mask to the toggle alias GPIO_OUT_XOR.
toggle_bits ==
    /\ Len(mmio) < MaxXorWrites
    /\ \E mask \in SUBSET XorBits :
          /\ GPIO_OUT' = AliasXor(GPIO_OUT, mask)
          /\ mmio' = Append(mmio, Write("GPIO_OUT_XOR", mask))
    /\ UNCHANGED <<pc, src, dst, ram, flash, _data_start, _data_end, _data_flash,
                   _bss_start, _bss_end, ram0, out0, wlog, main_calls>>
    /\ UNCHANGED <<tick_count_addr, RESETS_RESET, RESETS_RESET_DONE, GPIO25_CTRL,
                   GPIO_OE, SYST_CSR, SYST_RVR, SYST_CVR, isrvars, linkvars>>

\* The toggle alias alone, from every output level over XorBits, with the
\* pin configured and the timer not started.
InitXor ==
    /\ pc = "systick_init"
    /\ _data_start = 0 /\ _data_end = 0 /\ _data_flash = 0
    /\ _bss_start = 0 /\ _bss_end = RamWords
    /\ src = 0 /\ dst = RamWords
    /\ tick_count_addr = 0
    /\ ram = [a \in RamAddr |-> Zero32]
    /\ flash = [a \in FlashAddr |-> Zero32]
    /\ ram0 = ram
    /\ wlog = << >>
    /\ main_calls = 1
    /\ RESETS_RESET = OtherBlocks
    /\ RESETS_RESET_DONE = ReleasedAtBoot \cup RESET_IO_BANK0 \cup RESET_PADS_BANK0
    /\ GPIO25_CTRL = FUNCSEL_SIO
    /\ GPIO_OE = LED_MASK
    /\ GPIO_OUT \in SUBSET XorBits
    /\ out0 = GPIO_OUT
    /\ SYST_CSR = {}
    /\ SYST_RVR = 0
    /\ SYST_CVR = 0
    /\ mmio = << >>
    /\ NoFirings
    /\ LinkedImage

NextXor == toggle_bits

SpecXor == InitXor /\ [][NextXor]_vars

\* Other definitions an application might add to the image: the handler of
\* this repository, the same handler under a misspelt name, and overrides of
\* two more weak names.
Overrides ==
    { SysTick_Handler_def,
      Def("Systick_Handler", "main.c"),
      Def("HardFault_Handler", "app.c"),
      Def("UART0_IRQ_Handler", "app.c") }

\* The link of the vector table, slot by slot, for each image.
InitLink ==
    /\ \E extra \in SUBSET Overrides :
          image = (ThisImage \ {SysTick_Handler_def}) \cup extra
    /\ vector_table = << >>
    /\ link_k = 0
    /\ pc = "copy"
    /\ _data_start = 0 /\ _data_end = 0 /\ _data_flash = 0
    /\ _bss_start = 0 /\ _bss_end = RamWords
    /\ src = 0 /\ dst = 0
    /\ tick_count_addr = 0
    /\ ram = [a \in RamAddr |-> Noise32]
    /\ flash = [a \in FlashAddr |-> Zero32]
    /\ ram0 = ram
    /\ wlog = << >>
    /\ main_calls = 0
    /\ HwReset
    /\ NoFirings

NextLink == LinkSlot

SpecLink == InitLink /\ [][NextLink]_vars

(* ===================== claims: the reset sequencer ===================== *)
Writes(kind) == { i \in 1 .. Len(wlog) : wlog[i][1] = kind }

DataRange == { a \in RamAddr : _data_start <= a /\ a < _data_end }

BssRange == { a \in RamAddr : _bss_start <= a /\ a < _bss_end }

\* C1: Reset_Handler's three steps happen in the order copy, zero-fill, call
\* of main: main is entered at most once, and only after the copy loop has
\* written every word up to _data_end and the zero loop every word up to
\* _bss_end; no zero-fill write precedes a copy write.
C1_StrictOrder ==
    /\ main_calls <= 1
    /\ main_calls = 1 =>
          /\ pc \notin {"copy", "zero"}
          /\ ~(dst < _bss_end)
          /\ { wlog[i][2] : i \in Writes("copy") } = DataRange
          /\ { wlog[i][2] : i \in Writes("zero") } = BssRange
    /\ main_calls = 0 => pc \in {"copy", "zero"}
    /\ \A i \in Writes("zero") : \A j \in Writes("copy") : j < i

C1_Witness ==
    /\ main_calls = 1
    /\ Cardinality(Writes("copy")) >= 2
    /\ Cardinality(Writes("zero")) >= 2

\* The two target regions share no word.
NonOverlapping == DataRange \cap BssRange = {}

\* C2: when Reset_Handler reaches the call of main, every word of the .data
\* target region equals the flash word at the same offset from _data_flash,
\* for every initial RAM content and flash image (non-overlapping regions).
C2_CopyFidelity ==
    (pc = "main" /\ NonOverlapping) =>
        \A w \in 0 .. RamWords :
            _data_start + w < _data_end =>
                ram[_data_start + w] = flash[_data_flash + w]

C2_Witness ==
    /\ pc = "main"
    /\ NonOverlapping
    /\ _data_end - _data_start >= 2
    /\ _data_flash > 0
    /\ flash[_data_flash] # flash[_data_flash + 1]
    /\ \A a \in DataRange : ram0[a] # ram[a]

\* C3: when Reset_Handler reaches the call of main, every word of
\* [_bss_start, _bss_end) is zero, whatever the RAM held before reset.
C3_BssZero ==
    pc = "main" => \A a \in BssRange : ram[a] = Zero32

C3_Witness ==
    /\ pc = "main"
    /\ _bss_end - _bss_start >= 2
    /\ \A a \in BssRange : ram0[a] = Noise32 /\ ram[a] = Zero32

\* C4: once main has returned, Reset_Handler stays in its trap loop: control
\* never leaves it and it writes nothing more.
C4_TrapForever ==
    [][pc = "trap" => (pc' = "trap" /\ ram' = ram /\ wlog' = wlog
                        /\ main_calls' = main_calls /\ hwvars' = hwvars)]_vars

C4_Witness == pc = "trap" /\ main_calls = 1

(* ================== claims: peripheral reset release =================== *)
\* resets_init has returned to main.
ResetsInitReturned == pc \notin {"copy", "zero", "main", "resets_poll"}

\* A status value confirms both IO_BANK0 (bit 5) and PADS_BANK0 (bit 8).
BothConfirmed(v) == 5 \in v /\ 8 \in v

\* C5: resets_init never returns while the status read lacks one of the two
\* confirmation bits; it returns at the first read that has both, and never
\* reads the status register again -- for every sequence of status values,
\* partial confirmation included.
C5_PollUntilDone ==
    LET r == StatusReads
        n == Len(r)
    IN  /\ pc \in {"copy", "zero", "main"} => n = 0
        /\ pc = "resets_poll" => \A i \in 1 .. n : ~BothConfirmed(r[i][3])
        /\ ResetsInitReturned =>
              /\ n >= 1
              /\ BothConfirmed(r[n][3])
              /\ \A i \in 1 .. (n - 1) : ~BothConfirmed(r[i][3])

C5_Witness ==
    /\ ResetsInitReturned
    /\ Len(StatusReads) = 3
    /\ StatusReads[1][3] \cap {5, 8} = {5}
    /\ StatusReads[2][3] \cap {5, 8} = {8}

\* C6: GPIO25_CTRL, the only register of a resettable block the image
\* accesses, is written only after resets_init has read a status value with
\* the IO_BANK0 and PADS_BANK0 confirmation bits set.
C6_ReleaseBeforeAccess ==
    \A j \in 1 .. Len(mmio) :
        mmio[j][2] = "GPIO25_CTRL" =>
            \E i \in 1 .. (j - 1) :
                /\ mmio[i][1] = "r"
                /\ mmio[i][2] = "RESETS_RESET_DONE"
                /\ BothConfirmed(mmio[i][3])

C6_Witness ==
    /\ GPIO25_CTRL = FUNCSEL_SIO
    /\ \E j \in 1 .. Len(mmio) : mmio[j][2] = "GPIO25_CTRL"
    /\ Len(StatusReads) >= 2
    /\ ~BothConfirmed(StatusReads[1][3])

(* ===================== claims: the SysTick handler ===================== *)
\* Number of toggles among the firings lo .. hi.
TogglesIn(lo, hi) ==
    Cardinality({ i \in 1 .. Len(toggle_at) : lo <= toggle_at[i] /\ toggle_at[i] <= hi })

\* C7: from tick counter 0, after k firings of SysTick_Handler the pin has
\* toggled floor(k / 500) times, the i-th toggle at firing 500 * i (so once
\* after 500 and after 999, twice after 1000); the counter equals k.
C7_ToggleEvery500 ==
    ram0[tick_count_addr] = Zero32 =>
        /\ tick_count = <<0, fired>>
        /\ toggle_at = [i \in 1 .. (fired \div 500) |-> 500 * i]
        /\ (fired = 499 => Len(toggle_at) = 0)
        /\ (fired = 500 => Len(toggle_at) = 1)
        /\ (fired = 999 => Len(toggle_at) = 1)
        /\ (fired = 1000 => Len(toggle_at) = 2)

C7_Witness ==
    /\ ram0[tick_count_addr] = Zero32
    /\ fired = 1000
    /\ Len(toggle_at) = 2

\* C8: every window of 500 consecutive firings of SysTick_Handler contains
\* exactly one toggle of the pin, for all values of the 32-bit counter,
\* windows spanning its wrap from 2^32 - 1 to 0 included.
C8_OneTogglePerWindow ==
    fired >= 500 => TogglesIn(fired - 500 + 1, fired) = 1

(* ======================= claims: the vector table ====================== *)
\* The exceptions of the Cortex-M0+ by number; the other numbers below 16
\* are reserved on this core.
CortexM0Exceptions ==
    << "Reset", "NMI", "HardFault", "", "", "", "", "", "", "",
       "SVC", "", "", "PendSV", "SysTick" >>

\* The interrupt sources of the RP2040 by IRQ number, 0 to 25.
RP2040Irqs ==
    << "TIMER_IRQ0", "TIMER_IRQ1", "TIMER_IRQ2", "TIMER_IRQ3", "PWM_IRQ",
       "USBCTRL_IRQ", "XIP_IRQ", "PIO0_IRQ0", "PIO0_IRQ1", "PIO1_IRQ0",
       "PIO1_IRQ1", "DMA_IRQ0", "DMA_IRQ1", "IO_IRQ", "QSPI_IRQ",
       "SIO_PROC0_IRQ", "SIO_PROC1_IRQ", "CLOCKS_IRQ", "SPI0_IRQ", "SPI1_IRQ",
       "UART0_IRQ", "UART1_IRQ", "ADC_IRQ", "I2C0_IRQ", "I2C1_IRQ", "RTC_IRQ" >>

\* Number k is an exception or interrupt this core implements.
Implemented(k) ==
    \/ k \in 1 .. 15 /\ CortexM0Exceptions[k] # ""
    \/ k \in 16 .. (15 + Len(RP2040Irqs))

\* The symbol slot k has to name.
AssignedName(k) ==
    IF k = 0 THEN "_stack_top"
    ELSE IF ~Implemented(k) THEN "0"
    ELSE IF k <= 15 THEN CortexM0Exceptions[k] \o "_Handler"
    ELSE RP2040Irqs[k - 15] \o "_Handler"

\* C9: every slot k of vector_table names what number k is assigned (slot 0
\* the stack top, slot 1 Reset_Handler, slot 15 SysTick_Handler, slot 16 + i
\* the handler of IRQ i), and holds zero only when k is unimplemented.
C9_SlotsFollowNumbering ==
    \A k \in 0 .. (link_k - 1) :
        /\ vector_table[k + 1] = ZeroSlot => ~Implemented(k)
        /\ vector_table[k + 1] # ZeroSlot =>
              vector_table_init[k + 1] = AssignedName(k)

\* C10: each handler name of the table resolves to the strong definition of
\* that name when the image has one and to Default_Handler otherwise; in
\* this image SysTick_Handler resolves to main.c's definition and every
\* other weak name to Default_Handler; a definition under a name that does
\* not match leaves the slot bound to Default_Handler.
C10_OverrideResolution ==
    \A k \in 0 .. (link_k - 1) :
        LET n == vector_table_init[k + 1]
            e == vector_table[k + 1]
        IN  n \in WeakAliases =>
              /\ (\E d \in image : d.name = n) => (e \in image /\ e.name = n)
              /\ ~(\E d \in image : d.name = n) =>
                    e = Def("Default_Handler", "vectors.c")
              /\ image = ThisImage =>
                    e = IF n = "SysTick_Handler"
                        THEN Def("SysTick_Handler", "main.c")
                        ELSE Def("Default_Handler", "vectors.c")
              /\ (n = "SysTick_Handler"
                    /\ Def("Systick_Handler", "main.c") \in image
                    /\ Def("SysTick_Handler", "main.c") \notin image) =>
                    e = Def("Default_Handler", "vectors.c")

C10_Witness ==
    /\ link_k = NumSlots
    /\ image = ThisImage
    /\ vector_table[15 + 1] = Def("SysTick_Handler", "main.c")
    /\ vector_table[2 + 1] = Def("Default_Handler", "vectors.c")

(* ===================== claims: the fallback handler ==================== *)
\* C11: an exception whose handler has no override transfers control to
\* Default_Handler, which never returns: from then on the preempted code
\* takes no step and no memory word or register is written.
C11_FallbackHangs ==
    [][/\ (active_exc = 0 /\ active_exc' # 0) =>
              /\ pc' = "Default_Handler"
              /\ ret_pc' = pc
              /\ ram' = ram /\ hwvars' = hwvars
       /\ pc = "Default_Handler" =>
              /\ pc' = "Default_Handler"
              /\ active_exc' = active_exc /\ ret_pc' = ret_pc
              /\ ram' = ram /\ hwvars' = hwvars
              /\ fired' = fired /\ wlog' = wlog /\ dst' = dst]_vars

C11_Witness ==
    /\ pc = "Default_Handler"
    /\ active_exc = 36
    /\ ret_pc = "idle"
    /\ fired >= 1
    /\ CSR_ENABLE \subseteq SYST_CSR

(* ===================== claims: the register aliases ==================== *)
\* C12: toggling is its own inverse: from every output level, two writes of
\* the same mask to GPIO_OUT_XOR restore the level; two toggles with
\* LED_MASK leave every output bit as it was.
C12_ToggleInvolution ==
    /\ (Len(mmio) = 2 /\ mmio[1][3] = mmio[2][3]) => GPIO_OUT = out0
    /\ (Len(mmio) = 1 /\ mmio[1][3] = {25}) =>
          /\ (25 \in GPIO_OUT) = (25 \notin out0)
          /\ \A b \in {0, 24} : (b \in GPIO_OUT) = (b \in out0)

C12_Witness ==
    /\ Len(mmio) = 2
    /\ mmio[1][3] = {25}
    /\ mmio[2][3] = {25}
    /\ out0 = {24, 25}
    /\ GPIO_OUT = out0

\* The writes to one register or alias in the access log.
WritesTo(reg) == SelectSeq(mmio, LAMBDA e : e[1] = "w" /\ e[2] = reg)

\* C13: every bit set, clear or toggle of the code is one write to an alias
\* (RESETS_RESET_CLR, GPIO_OE_SET, GPIO_OUT_XOR), never a read followed by a
\* write; with the handler taken at any point where it can be, the register
\* bits are those of the logged operations applied one after the other, so
\* no toggle of the handler is lost.
C13_SingleAliasWrites ==
    /\ \A i \in 1 .. Len(mmio) :
          /\ mmio[i][1] = "r" => mmio[i][2] = "RESETS_RESET_DONE"
          /\ mmio[i][2] \notin {"RESETS_RESET", "GPIO_OE", "GPIO_OUT"}
    /\ Len(WritesTo("GPIO_OUT_XOR")) =
          Len(toggle_at) + (IF pc \in {"systick_init", "systick_cvr",
                                       "systick_csr", "idle"} THEN 1 ELSE 0)
    /\ (25 \in GPIO_OUT) =
          ((25 \in out0) = (Len(WritesTo("GPIO_OUT_XOR")) % 2 = 0))
    /\ GPIO_OUT \ {25} = out0 \ {25}
    /\ GPIO_OE = IF Len(WritesTo("GPIO_OE_SET")) > 0 THEN {25} ELSE {}
    /\ RESETS_RESET = IF Len(WritesTo("RESETS_RESET_CLR")) > 0 THEN {0} ELSE {0, 5, 8}

C13_Witness ==
    /\ pc = "idle"
    /\ Len(toggle_at) = 2
    /\ Len(WritesTo("GPIO_OUT_XOR")) = 3
    /\ 25 \in GPIO_OUT

\* The bring-up step a control point belongs to: Reset_Handler's memory
\* preparation, main's entry, resets_init, gpio_init, systick_init, idle loop.
Stage(p) ==
    CASE p \in {"copy", "zero"} -> 1
      [] p = "main" -> 2
      [] p = "resets_poll" -> 3
      [] p \in {"gpio_init", "gpio_oe", "gpio_xor"} -> 4
      [] p \in {"systick_init", "systick_cvr", "systick_csr"} -> 5
      [] p = "idle" -> 6
      [] OTHER -> 0

\* The position of the first log entry that satisfies P, 0 when none does.
FirstAccess(P(_)) ==
    IF \E i \in 1 .. Len(mmio) : P(mmio[i])
    THEN CHOOSE i \in 1 .. Len(mmio) :
            P(mmio[i]) /\ \A j \in 1 .. i - 1 : ~P(mmio[j])
    ELSE 0

\* C14: the bring-up steps follow one another in the fixed order, the
\* handler runs only once systick_init has written the enable and interrupt
\* bits to SYST_CSR, and a handler toggle finds the pin with function SIO
\* and its output-enable asserted.
C14_BringUpOrder ==
    [][/\ Stage(pc) > 0
       /\ Stage(pc') \in {Stage(pc), Stage(pc) + 1}
       /\ fired' # fired =>
             /\ pc = "idle"
             /\ FirstAccess(LAMBDA e : e = Write("SYST_CSR",
                     CSR_CLKSOURCE \cup CSR_TICKINT \cup CSR_ENABLE)) > 0
       /\ toggle_at' # toggle_at =>
             /\ GPIO25_CTRL = FUNCSEL_SIO
             /\ LED_PIN \in GPIO_OE
             /\ FirstAccess(LAMBDA e : e = Write("GPIO25_CTRL", FUNCSEL_SIO)) > 0
             /\ FirstAccess(LAMBDA e : e = Write("GPIO25_CTRL", FUNCSEL_SIO))
                    < FirstAccess(LAMBDA e : e = Write("GPIO_OE_SET", LED_MASK))
             /\ FirstAccess(LAMBDA e : e = Write("GPIO_OE_SET", LED_MASK))
                    < FirstAccess(LAMBDA e : e[2] = "SYST_CSR")]_vars

C14_Witness ==
    /\ pc = "idle"
    /\ toggle_at = <<500>>
    /\ fired = 500
    /\ main_calls = 1

\* The timer's state as the code leaves it: Stopped until the reload value
\* is written, Configured until the enable bit is, Running from then on.
TimerState ==
    IF CSR_ENABLE \subseteq SYST_CSR THEN "Running"
    ELSE IF Len(WritesTo("SYST_RVR")) > 0 THEN "Configured"
    ELSE "Stopped"

\* C15: the timer goes Stopped, Configured, Running: the reload value
\* 6000 - 1 and then the current-value clear are written before SYST_CSR, so
\* the timer never runs with an unconfigured reload value, and once it runs
\* nothing writes SYST_CSR, SYST_RVR or SYST_CVR again.
C15_TimerLifecycle ==
    [][/\ TimerState' # TimerState =>
             \/ TimerState = "Stopped" /\ TimerState' = "Configured"
             \/ TimerState = "Configured" /\ TimerState' = "Running"
       /\ TimerState' = "Running" =>
             /\ SYST_RVR' = ticks_per_ms - 1
             /\ SYST_CSR' = CSR_CLKSOURCE \cup CSR_TICKINT \cup CSR_ENABLE
             /\ WritesTo("SYST_RVR")' = << Write("SYST_RVR", ticks_per_ms - 1) >>
             /\ WritesTo("SYST_CVR")' = << Write("SYST_CVR", 0) >>
             /\ Len(WritesTo("SYST_CSR"))' = 1
             /\ FirstAccess(LAMBDA e : e[2] = "SYST_RVR")'
                    < FirstAccess(LAMBDA e : e[2] = "SYST_CVR")'
             /\ FirstAccess(LAMBDA e : e[2] = "SYST_CVR")'
                    < FirstAccess(LAMBDA e : e[2] = "SYST_CSR")'
       /\ TimerState = "Running" =>
             /\ \A r \in {"SYST_CSR", "SYST_RVR", "SYST_CVR"} :
                    WritesTo(r)' = WritesTo(r)
             /\ <<SYST_CSR, SYST_RVR, SYST_CVR>>' = <<SYST_CSR, SYST_RVR, SYST_CVR>>]_vars

C15_Witness ==
    /\ TimerState = "Running"
    /\ SYST_RVR = 5999
    /\ fired = 1000
    /\ Len(toggle_at) = 2

C17_MaskOnly ==
    [][/\ RESETS_RESET' \ {5, 8} = RESETS_RESET \ {5, 8}
       /\ RESETS_RESET' \subseteq RESETS_RESET
       /\ WritesTo("RESETS_RESET_CLR")' # WritesTo("RESETS_RESET_CLR") =>
             RESETS_RESET' \cap {5, 8} = {}
       /\ GPIO_OE' \ {25} = GPIO_OE \ {25}
       /\ GPIO_OE \subseteq GPIO_OE'
       /\ WritesTo("GPIO_OE_SET")' # WritesTo("GPIO_OE_SET") => 25 \in GPIO_OE'
       /\ GPIO_OUT' \ {25} = GPIO_OUT \ {25}
       /\ (WritesTo("GPIO_OUT_XOR")' # WritesTo("GPIO_OUT_XOR"))
             = ((25 \in GPIO_OUT') # (25 \in GPIO_OUT))]_vars

C17_Witness ==
    /\ pc = "idle"
    /\ RESETS_RESET = {0}
    /\ GPIO_OE = {24, 25}
    /\ GPIO_OUT = {24}
    /\ out0 = {24, 25}
    /\ Len(WritesTo("GPIO_OUT_XOR")) = 3

\* C18: gpio_init writes LED_MASK to GPIO_OUT_XOR exactly once, after the
\* output-enable write; when the timer is started the pin level is the
\* inverse of its level at reset, and after k firings of the handler, the
\* counter having started at 0, the toggle writes since reset number
\* 1 + floor(k / 500).
C18_ConfigurationToggles ==
    /\ Stage(pc) \in 1 .. 4 => WritesTo("GPIO_OUT_XOR") = << >>
    /\ Stage(pc) \in 5 .. 6 =>
          /\ Len(WritesTo("GPIO_OUT_XOR")) = 1 + (fired \div TOGGLE_TICKS)
          /\ Len(WritesTo("GPIO_OUT_XOR")) - Len(toggle_at) = 1
          /\ \A i \in 1 .. Len(WritesTo("GPIO_OUT_XOR")) :
                WritesTo("GPIO_OUT_XOR")[i][3] = LED_MASK
          /\ FirstAccess(LAMBDA e : e[2] = "GPIO_OE_SET") > 0
          /\ FirstAccess(LAMBDA e : e[2] = "GPIO_OE_SET")
                < FirstAccess(LAMBDA e : e[2] = "GPIO_OUT_XOR")
    /\ (Stage(pc) \in 5 .. 6 /\ fired < TOGGLE_TICKS) =>
          (LED_PIN \in GPIO_OUT) = (LED_PIN \notin out0)

C18_Witness ==
    /\ pc = "idle"
    /\ fired = 1000
    /\ Len(WritesTo("GPIO_OUT_XOR")) = 3
    /\ LED_PIN \in GPIO_OUT
    /\ LED_PIN \notin out0

\* C19: whatever the RAM held at power-on, tick_count is 0 when the timer
\* is started and at the handler's first firing, and the handler's first
\* toggle is at its 500th firing.
C19_FirstToggleAt500 ==
    /\ tick_count_addr \in DataRange \cup BssRange
    /\ (Stage(pc) >= 2 /\ fired = 0) => tick_count = Zero32
    /\ fired = 1 => tick_count = <<0, 1>>
    /\ fired < TOGGLE_TICKS => toggle_at = << >>
    /\ fired >= TOGGLE_TICKS => (toggle_at # << >> /\ toggle_at[1] = TOGGLE_TICKS)

C19_Witness ==
    /\ ram0[tick_count_addr] = Noise32
    /\ fired = 500
    /\ toggle_at = <<500>>
    /\ tick_count = <<0, 500>>

\* The number of words of a region that starts at lo and ends before hi.
RegionWords(lo, hi) == IF hi > lo THEN hi - lo ELSE 0

\* What Reset_Handler has written so far: words of the two regions only,
\* one pass per word, none for a region that is empty or inverted.
InsideRegions ==
    /\ \A i \in Writes("copy") : wlog[i][2] \in DataRange
    /\ \A i \in Writes("zero") : wlog[i][2] \in BssRange
    /\ \A a \in RamAddr \ (DataRange \cup BssRange) : ram[a] = ram0[a]
    /\ _data_end <= _data_start => Writes("copy") = {}
    /\ _bss_end <= _bss_start => Writes("zero") = {}
    /\ Cardinality(Writes("copy")) <= RegionWords(_data_start, _data_end)
    /\ Cardinality(Writes("zero")) <= RegionWords(_bss_start, _bss_end)
    /\ pc = "copy" => dst = _data_start + Cardinality(Writes("copy"))
    /\ pc = "zero" => dst = _bss_start + Cardinality(Writes("zero"))
    /\ pc \notin {"copy"} =>
          Cardinality(Writes("copy")) = RegionWords(_data_start, _data_end)
    /\ pc \notin {"copy", "zero"} =>
          Cardinality(Writes("zero")) = RegionWords(_bss_start, _bss_end)

\* C20: Reset_Handler writes only words of [_data_start, _data_end) and of
\* [_bss_start, _bss_end): every other word holds its power-on content when
\* main is entered; a loop whose region is empty or inverted writes nothing;
\* and both loops end, for every placement of the four boundaries.
C20_WritesInsideRegions ==
    /\ []InsideRegions
    /\ <>(pc \notin {"copy", "zero"})

C20_Witness ==
    /\ pc = "main"
    /\ _data_start = 1 /\ _data_end = 2
    /\ _bss_start = 3 /\ _bss_end = 2
    /\ Len(wlog) = 1
    /\ ram0 = [a \in RamAddr |-> Noise32]
    /\ ram[0] = Noise32 /\ ram[2] = Noise32 /\ ram[1] # Noise32

\* C21: if the reset controller comes to report both confirmation bits and
\* keeps them, resets_init returns and main reaches its idle loop with the
\* timer Running; with the timer firing and no fallback handler holding the
\* core, every toggle of the pin is followed by another one while the
\* firings counted leave room for it; and if the controller never reports
\* both bits, gpio_init and systick_init are never executed.
C21_Progress ==
    /\ <>[]BothConfirmed(RESETS_RESET_DONE) =>
          <>(pc = "idle" /\ TimerState = "Running" /\ ResetsInitReturned)
    /\ [](active_exc = 0) =>
          \A k \in 0 .. (MaxFirings \div TOGGLE_TICKS) :
             (pc = "idle" /\ Len(toggle_at) = k
                 /\ fired <= MaxFirings - TOGGLE_TICKS)
               ~> (Len(toggle_at) = k + 1)
    /\ [](~BothConfirmed(RESETS_RESET_DONE)) => [](Stage(pc) <= 3)

C21_Witness ==
    /\ pc = "idle"
    /\ TimerState = "Running"
    /\ BothConfirmed(RESETS_RESET_DONE)
    /\ Len(StatusReads) = MaxPolls + 1
    /\ Len(toggle_at) = 2

====
